---- MODULE Spec2Model ----
(***************************************************************************)
(* The OAI 5G NRF operator charm (src/src/charm.py) and the fiveg_nrf      *)
(* relation library (src/lib/charms/oai_5g_nrf/v0/fiveg_nrf.py) as a state *)
(* machine.                                                                *)
(*                                                                         *)
(* Spec     the charm: its two event handlers, driven by the Juju events   *)
(*          the charm observes, over a workload container whose Pebble     *)
(*          may be unreachable and whose calls may raise.                  *)
(* SpecLib  the provider side of the library, called directly with         *)
(*          arbitrary endpoint records.                                    *)
(* SpecReq  the requirer side of the library: the relation-changed handler *)
(*          and the availability properties over the remote data.          *)
(* SpecLiveConfig, SpecLivePublish                                         *)
(*          the charm with weak fairness of the redelivery of deferred     *)
(*          events, for the liveness of configuration and of publishing.   *)
(***************************************************************************)
EXTENDS Naturals, Sequences, FiniteSets, TLC

VARIABLES
    can_connect,     \* Container.can_connect(): Pebble of container "nrf" answers
    is_leader,       \* Unit.is_leader()
    config,          \* model.config["nrfInterfaceNameForSBI"]
    app_name,        \* model.app.name
    model_name,      \* model.name
    container,       \* workload container: [files, plan, running]
    unit_status,     \* unit.status
    relations,       \* ids of the established fiveg-nrf relations
    relation_data,   \* relation.data[charm.app] of every relation id
    deferred,        \* events whose handler called event.defer()
    last,            \* the handler run that has just ended (Idle after any other step)
    call,            \* the FiveGNRFProvides call just made (NoCall after any other step)
    observed_ready,  \* relations whose joined event the leader handled with the service running
    remote_app,      \* requirer side: relation.app is known
    remote_data,     \* requirer side: relation.data[relation.app]
    nrf_available    \* requirer side: what the relation-changed run just ended emitted

charm_vars == <<can_connect, is_leader, config, app_name, model_name, container,
                unit_status, relations, relation_data, deferred, last, call,
                observed_ready>>

requirer_vars == <<remote_app, remote_data, nrf_available>>

vars == <<charm_vars, requirer_vars>>

-----------------------------------------------------------------------------
(* Bounds of the model *)

MaxRelations == 2

RelIds == 1..MaxRelations
\* Values of nrfInterfaceNameForSBI; the charm takes any string, the empty
\* one included
InterfaceNames == {"eth0", "ens3", ""}
AppNames == {"oai-5g-nrf"}
ModelNames == {"core"}

-----------------------------------------------------------------------------
(* Python values *)

None == "None"

\* dict.get(key, None)
Get(d, key) == IF key \in DOMAIN d THEN d[key] ELSE None

EmptyDict == [k \in {} |-> None]

-----------------------------------------------------------------------------
(* charm.py: constants and configuration properties *)

BASE_CONFIG_PATH == "/openair-nrf/etc"
CONFIG_FILE_NAME == "nrf.conf"

_service_name == "nrf"

_config_instance == "0"
_config_pid_directory == "/var/run"
_config_sbi_interface_name == config
_config_sbi_interface_port == "80"
_config_sbi_interface_http2_port == "9090"
_config_sbi_interface_nrf_api_version == "v1"

\* f"{BASE_CONFIG_PATH}/{CONFIG_FILE_NAME}"
ConfigPath == BASE_CONFIG_PATH \o "/" \o CONFIG_FILE_NAME

_pebble_layer ==
    [summary |-> "nrf layer",
     description |-> "pebble config layer for nrf",
     services |->
        (_service_name :>
            [override |-> "replace",
             summary |-> "nrf",
             command |-> "/openair-nrf/bin/oai_nrf -c " \o ConfigPath \o " -o",
             startup |-> "enabled"])]

\* The template nrf.conf.j2, by the document the unit test expects of it
\* (the licence header, the comments and the line breaks left out): numbers
\* are written bare, strings in quotes, and IPV4_ADDRESS is fixed.
Template(instance, pid_directory, name, port, http2_port, api_version) ==
    "NRF = { INSTANCE = " \o instance \o "; "
    \o "PID_DIRECTORY = \"" \o pid_directory \o "\"; "
    \o "SBI_INTERFACE : { "
    \o "INTERFACE_NAME = \"" \o name \o "\"; "
    \o "IPV4_ADDRESS = \"read\"; "
    \o "PORT = " \o port \o "; "
    \o "HTTP2_PORT = " \o http2_port \o "; "
    \o "API_VERSION = \"" \o api_version \o "\"; "
    \o "}; };"

\* Mutant of Render: the HTTP/2 port is handed to the template as the port
Render_http2_port_as_port(name) ==
    Template(_config_instance, _config_pid_directory, name,
             _config_sbi_interface_http2_port, _config_sbi_interface_http2_port,
             _config_sbi_interface_nrf_api_version)

\* template.render(...) with the six values of the charm
Render(name) ==
    Template(_config_instance, _config_pid_directory, name,
             _config_sbi_interface_port, _config_sbi_interface_http2_port,
             _config_sbi_interface_nrf_api_version)

-----------------------------------------------------------------------------
(* The workload container as the charm drives it.  A call that raises leaves *)
(* the container as it was.                                                  *)

EmptyContainer == [files |-> EmptyDict, plan |-> EmptyDict, running |-> {}]

\* Container.push(path, source)
Push(w, path, source) == [w EXCEPT !.files = (path :> source) @@ w.files]

\* Container.add_layer(label, layer, combine=True): override "replace"
AddLayer(w, layer) == [w EXCEPT !.plan = layer.services @@ w.plan]

\* Container.replan(): starts the services whose startup is "enabled"
Replan(w) ==
    [w EXCEPT !.running =
        w.running \cup {s \in DOMAIN w.plan : w.plan[s].startup = "enabled"}]

\* Container.restart(name)
Restart(w, name) == [w EXCEPT !.running = w.running \cup {name}]

\* The calls of a config-changed pass that may raise
FailPoints == {"none", "push", "add_layer", "replan", "restart"}

-----------------------------------------------------------------------------
(* charm.py: the config-changed handler *)

\* _push_config(): render, then Container.push
_push_config(w, fail) ==
    LET content == Render(_config_sbi_interface_name) IN
    IF fail = "push"
    THEN [raised |-> TRUE, w |-> w, calls |-> <<"push">>]
    ELSE [raised |-> FALSE, w |-> Push(w, ConfigPath, content), calls |-> <<"push">>]

\* Mutant of _update_pebble_layer: the restart call is forgotten
_update_pebble_layer_no_restart(w, fail) ==
    IF fail = "add_layer"
    THEN [raised |-> TRUE, w |-> w, calls |-> <<"add_layer">>]
    ELSE LET w1 == AddLayer(w, _pebble_layer) IN
         IF fail = "replan"
         THEN [raised |-> TRUE, w |-> w1, calls |-> <<"add_layer", "replan">>]
         ELSE [raised |-> FALSE, w |-> Replan(w1),
               calls |-> <<"add_layer", "replan">>]

\* _update_pebble_layer(): add_layer, replan, restart
_update_pebble_layer(w, fail) ==
    IF fail = "add_layer"
    THEN [raised |-> TRUE, w |-> w, calls |-> <<"add_layer">>]
    ELSE LET w1 == AddLayer(w, _pebble_layer) IN
         IF fail = "replan"
         THEN [raised |-> TRUE, w |-> w1, calls |-> <<"add_layer", "replan">>]
         ELSE LET w2 == Replan(w1) IN
              IF fail = "restart"
              THEN [raised |-> TRUE, w |-> w2,
                    calls |-> <<"add_layer", "replan", "restart">>]
              ELSE [raised |-> FALSE, w |-> Restart(w2, _service_name),
                    calls |-> <<"add_layer", "replan", "restart">>]

\* Mutant of _on_config_changed: the can_connect branch sets the status and
\* returns without event.defer()
_on_config_changed_no_defer(fail) ==
    IF ~can_connect
    THEN [status |-> "waiting", w |-> container, calls |-> <<>>,
          outcome |-> "ok"]
    ELSE LET p == _push_config(container, fail) IN
         IF p.raised
         THEN [status |-> unit_status, w |-> p.w, calls |-> p.calls,
               outcome |-> "error"]
         ELSE LET u == _update_pebble_layer(p.w, fail) IN
              IF u.raised
              THEN [status |-> unit_status, w |-> u.w,
                    calls |-> p.calls \o u.calls, outcome |-> "error"]
              ELSE [status |-> "active", w |-> u.w,
                    calls |-> p.calls \o u.calls, outcome |-> "ok"]

\* Mutant of _on_config_changed: the ActiveStatus assignment is forgotten
_on_config_changed_no_active_status(fail) ==
    IF ~can_connect
    THEN [status |-> "waiting", w |-> container, calls |-> <<>>,
          outcome |-> "deferred"]
    ELSE LET p == _push_config(container, fail) IN
         IF p.raised
         THEN [status |-> unit_status, w |-> p.w, calls |-> p.calls,
               outcome |-> "error"]
         ELSE LET u == _update_pebble_layer(p.w, fail) IN
              IF u.raised
              THEN [status |-> unit_status, w |-> u.w,
                    calls |-> p.calls \o u.calls, outcome |-> "error"]
              ELSE [status |-> unit_status, w |-> u.w,
                    calls |-> p.calls \o u.calls, outcome |-> "ok"]

\* Mutant of _on_config_changed: a unit that is already Active returns at once
_on_config_changed_once_active(fail) ==
    IF unit_status = "active"
    THEN [status |-> unit_status, w |-> container, calls |-> <<>>,
          outcome |-> "ok"]
    ELSE IF ~can_connect
    THEN [status |-> "waiting", w |-> container, calls |-> <<>>,
          outcome |-> "deferred"]
    ELSE LET p == _push_config(container, fail) IN
         IF p.raised
         THEN [status |-> unit_status, w |-> p.w, calls |-> p.calls,
               outcome |-> "error"]
         ELSE LET u == _update_pebble_layer(p.w, fail) IN
              IF u.raised
              THEN [status |-> unit_status, w |-> u.w,
                    calls |-> p.calls \o u.calls, outcome |-> "error"]
              ELSE [status |-> "active", w |-> u.w,
                    calls |-> p.calls \o u.calls, outcome |-> "ok"]

\* _on_config_changed(event): what one run does to the unit status and the
\* container, the container calls it makes, and how it ends: "deferred"
\* (event.defer() and return), "ok" (return) or "error" (an exception of a
\* container call leaves the handler; nothing in the charm catches it)
_on_config_changed(fail) ==
    IF ~can_connect
    THEN [status |-> "waiting", w |-> container, calls |-> <<>>,
          outcome |-> "deferred"]
    ELSE LET p == _push_config(container, fail) IN
         IF p.raised
         THEN [status |-> unit_status, w |-> p.w, calls |-> p.calls,
               outcome |-> "error"]
         ELSE LET u == _update_pebble_layer(p.w, fail) IN
              IF u.raised
              THEN [status |-> unit_status, w |-> u.w,
                    calls |-> p.calls \o u.calls, outcome |-> "error"]
              ELSE [status |-> "active", w |-> u.w,
                    calls |-> p.calls \o u.calls, outcome |-> "ok"]

-----------------------------------------------------------------------------
(* fiveg_nrf.py: FiveGNRFProvides *)

Keys == {"nrf_ipv4_address", "nrf_fqdn", "nrf_port", "nrf_api_version"}

\* model.get_relation(relationship_name, relation_id=relation_id)
get_relation(relation_id) ==
    IF relation_id \in relations THEN {relation_id} ELSE {}

\* Mutant of nrf_data_is_set: the nrf_api_version comparison is missing
nrf_data_is_set_three_fields(data, relation_id, rec) ==
    IF Get(data[relation_id], "nrf_ipv4_address") # rec.nrf_ipv4_address THEN FALSE
    ELSE IF Get(data[relation_id], "nrf_fqdn") # rec.nrf_fqdn THEN FALSE
    ELSE IF Get(data[relation_id], "nrf_port") # rec.nrf_port THEN FALSE
    ELSE TRUE

\* nrf_data_is_set(...): four comparisons of the stored value, read with
\* .get(key, None), against the argument
nrf_data_is_set(data, relation_id, rec) ==
    IF Get(data[relation_id], "nrf_ipv4_address") # rec.nrf_ipv4_address THEN FALSE
    ELSE IF Get(data[relation_id], "nrf_fqdn") # rec.nrf_fqdn THEN FALSE
    ELSE IF Get(data[relation_id], "nrf_port") # rec.nrf_port THEN FALSE
    ELSE IF Get(data[relation_id], "nrf_api_version") # rec.nrf_api_version THEN FALSE
    ELSE TRUE

\* Mutant of Update: the record is written to the bag of every relation
Update_every_relation(data, relation_id, rec) ==
    [q \in DOMAIN data |-> [k \in Keys |-> rec[k]] @@ data[q]]

\* relation.data[self.charm.app].update({...}): the four keys are set, the
\* other keys of the bag are kept
Update(data, relation_id, rec) ==
    [data EXCEPT ![relation_id] =
        [k \in Keys |-> rec[k]] @@ data[relation_id]]

\* Mutant of set_nrf_information: the exception of a refused access is
\* caught and the call returns
set_nrf_information_swallows_refusal(data, rec, relation_id, rejected) ==
    IF get_relation(relation_id) = {}
    THEN [data |-> data, writes |-> 0, outcome |-> "RuntimeError"]
    ELSE IF rejected
    THEN [data |-> data, writes |-> 0, outcome |-> "ok"]
    ELSE IF nrf_data_is_set(data, relation_id, rec)
    THEN [data |-> data, writes |-> 0, outcome |-> "ok"]
    ELSE [data |-> Update(data, relation_id, rec), writes |-> 1, outcome |-> "ok"]

\* set_nrf_information(...).  rejected: relation.data[self.charm.app] refuses
\* the access, and the exception of its first use, the read in
\* nrf_data_is_set, leaves the call; the library catches nothing.  The result
\* is the relation data after the call, the number of update calls made, and
\* how the call ended.
set_nrf_information(data, rec, relation_id, rejected) ==
    IF get_relation(relation_id) = {}
    THEN [data |-> data, writes |-> 0, outcome |-> "RuntimeError"]
    ELSE IF rejected
    THEN [data |-> data, writes |-> 0, outcome |-> "error"]
    ELSE IF nrf_data_is_set(data, relation_id, rec)
    THEN [data |-> data, writes |-> 0, outcome |-> "ok"]
    ELSE [data |-> Update(data, relation_id, rec), writes |-> 1, outcome |-> "ok"]

\* model.relations[relationship_name]: the established relations, by id
RECURSIVE SortedSeq(_)
SortedSeq(S) ==
    IF S = {} THEN <<>>
    ELSE LET m == CHOOSE x \in S : \A y \in S : x <= y
         IN <<m>> \o SortedSeq(S \ {m})

\* The loop of set_nrf_information_for_all_relations over rels: the exception
\* of one set_nrf_information call leaves the loop.
RECURSIVE ForAllLoop(_, _, _, _)
ForAllLoop(data, rec, rels, rejecting) ==
    IF rels = <<>>
    THEN [data |-> data, writes |-> 0, outcome |-> "ok", attempted |-> {}]
    ELSE LET r == Head(rels)
             one == set_nrf_information(data, rec, r, r \in rejecting)
         IN IF one.outcome # "ok"
            THEN [data |-> one.data, writes |-> one.writes,
                  outcome |-> one.outcome, attempted |-> {r}]
            ELSE LET rest == ForAllLoop(one.data, rec, Tail(rels), rejecting)
                 IN [data |-> rest.data, writes |-> one.writes + rest.writes,
                     outcome |-> rest.outcome,
                     attempted |-> {r} \cup rest.attempted]

set_nrf_information_for_all_relations(data, rec, rejecting) ==
    ForAllLoop(data, rec, SortedSeq(relations), rejecting)

-----------------------------------------------------------------------------
(* fiveg_nrf.py: FiveGNRFRequires *)

NoEvent == [k \in Keys |-> None]

\* No relation-changed run has just ended
NotHandled == [handled |-> FALSE, emitted |-> FALSE, event |-> NoEvent]

\* Mutant of _on_relation_changed: the nrf_api_version check is missing
_on_relation_changed_three_checks(app, data) ==
    IF ~app
    THEN [handled |-> TRUE, emitted |-> FALSE, event |-> NoEvent]
    ELSE IF "nrf_ipv4_address" \notin DOMAIN data
    THEN [handled |-> TRUE, emitted |-> FALSE, event |-> NoEvent]
    ELSE IF "nrf_fqdn" \notin DOMAIN data
    THEN [handled |-> TRUE, emitted |-> FALSE, event |-> NoEvent]
    ELSE IF "nrf_port" \notin DOMAIN data
    THEN [handled |-> TRUE, emitted |-> FALSE, event |-> NoEvent]
    ELSE [handled |-> TRUE, emitted |-> TRUE,
          event |-> [nrf_ipv4_address |-> data["nrf_ipv4_address"],
                     nrf_fqdn |-> data["nrf_fqdn"],
                     nrf_port |-> data["nrf_port"],
                     nrf_api_version |-> Get(data, "nrf_api_version")]]

\* _on_relation_changed(event): app is event.relation.app being set, data is
\* relation.data[relation.app].  The result says whether nrf_available was
\* emitted and with which four values.
_on_relation_changed(app, data) ==
    IF ~app
    THEN [handled |-> TRUE, emitted |-> FALSE, event |-> NoEvent]
    ELSE IF "nrf_ipv4_address" \notin DOMAIN data
    THEN [handled |-> TRUE, emitted |-> FALSE, event |-> NoEvent]
    ELSE IF "nrf_fqdn" \notin DOMAIN data
    THEN [handled |-> TRUE, emitted |-> FALSE, event |-> NoEvent]
    ELSE IF "nrf_port" \notin DOMAIN data
    THEN [handled |-> TRUE, emitted |-> FALSE, event |-> NoEvent]
    ELSE IF "nrf_api_version" \notin DOMAIN data
    THEN [handled |-> TRUE, emitted |-> FALSE, event |-> NoEvent]
    ELSE [handled |-> TRUE, emitted |-> TRUE,
          event |-> [nrf_ipv4_address |-> data["nrf_ipv4_address"],
                     nrf_fqdn |-> data["nrf_fqdn"],
                     nrf_port |-> data["nrf_port"],
                     nrf_api_version |-> data["nrf_api_version"]]]

\* relation.data.get(relation.app), then "if not remote_app_relation_data:
\* return None", then .get(key, None)
RemoteGet(key) ==
    IF ~remote_app THEN None
    ELSE IF DOMAIN remote_data = {} THEN None
    ELSE Get(remote_data, key)

nrf_ipv4_address == RemoteGet("nrf_ipv4_address")
nrf_fqdn == RemoteGet("nrf_fqdn")
nrf_port == RemoteGet("nrf_port")

\* Mutant of nrf_api_version: the key is misspelt
nrf_api_version_other_key == RemoteGet("nrf_version")

nrf_api_version == RemoteGet("nrf_api_version")

\* "if self.nrf_...: return True else: return False": None and the empty
\* string are false
Truthy(v) == v # None /\ v # ""

nrf_ipv4_address_available == Truthy(nrf_ipv4_address)
nrf_fqdn_available == Truthy(nrf_fqdn)
nrf_port_available == Truthy(nrf_port)
nrf_api_version_available == Truthy(nrf_api_version)

-----------------------------------------------------------------------------
(* charm.py: the relation-joined handler *)

\* Mutant of _nrf_service_started: the is_running() check is missing
_nrf_service_started_no_running_check ==
    IF ~can_connect
    THEN [raised |-> FALSE, value |-> FALSE]
    ELSE IF _service_name \notin DOMAIN container.plan
    THEN [raised |-> TRUE, value |-> FALSE]
    ELSE [raised |-> FALSE, value |-> TRUE]

\* _nrf_service_started: can_connect(), then get_service(name).is_running().
\* Container.get_service raises ModelError when Pebble knows no service of
\* that name, and the property does not catch it.
_nrf_service_started ==
    IF ~can_connect
    THEN [raised |-> FALSE, value |-> FALSE]
    ELSE IF _service_name \notin DOMAIN container.plan
    THEN [raised |-> TRUE, value |-> FALSE]
    ELSE IF _service_name \notin container.running
    THEN [raised |-> FALSE, value |-> FALSE]
    ELSE [raised |-> FALSE, value |-> TRUE]

\* _nrf_is_listening: the check is a TODO, the property returns True
_nrf_is_listening == TRUE

\* Mutant of Fqdn: the model name is left out
Fqdn_no_model == app_name \o ".svc.cluster.local"

\* f"{self.model.app.name}.{self.model.name}.svc.cluster.local"
Fqdn == app_name \o "." \o model_name \o ".svc.cluster.local"

\* The arguments of the handler's set_nrf_information call
EndpointRecord ==
    [nrf_ipv4_address |-> "127.0.0.1",
     nrf_fqdn |-> Fqdn,
     nrf_port |-> _config_sbi_interface_port,
     nrf_api_version |-> _config_sbi_interface_nrf_api_version]

NoCall ==
    [op |-> "none", relation_id |-> 0, rec |-> [k \in Keys |-> None],
     outcome |-> "none", writes |-> 0, attempted |-> {}, rejecting |-> {}]

SetCall(rec, relation_id, res) ==
    [op |-> "set_nrf_information", relation_id |-> relation_id, rec |-> rec,
     outcome |-> res.outcome, writes |-> res.writes, attempted |-> {relation_id},
     rejecting |-> IF res.outcome = "error" THEN {relation_id} ELSE {}]

\* Mutant of _on_fiveg_nrf_relation_joined: the is_leader() check is missing
_on_fiveg_nrf_relation_joined_no_leader_check(relation_id) ==
    IF _nrf_service_started.raised
    THEN [data |-> relation_data, call |-> NoCall, outcome |-> "error"]
    ELSE IF ~_nrf_service_started.value
    THEN [data |-> relation_data, call |-> NoCall, outcome |-> "deferred"]
    ELSE IF ~_nrf_is_listening
    THEN [data |-> relation_data, call |-> NoCall, outcome |-> "deferred"]
    ELSE LET res == set_nrf_information(relation_data, EndpointRecord,
                                        relation_id, FALSE)
         IN [data |-> res.data,
             call |-> SetCall(EndpointRecord, relation_id, res),
             outcome |-> IF res.outcome = "ok" THEN "ok" ELSE "error"]

\* _on_fiveg_nrf_relation_joined(event) for event.relation.id = relation_id:
\* the relation data after the run, the library call made (if any), and how
\* the run ends: "noop" (not leader: return), "deferred", "ok", or "error"
\* (an exception leaves the handler)
_on_fiveg_nrf_relation_joined(relation_id) ==
    IF ~is_leader
    THEN [data |-> relation_data, call |-> NoCall, outcome |-> "noop"]
    ELSE IF _nrf_service_started.raised
    THEN [data |-> relation_data, call |-> NoCall, outcome |-> "error"]
    ELSE IF ~_nrf_service_started.value
    THEN [data |-> relation_data, call |-> NoCall, outcome |-> "deferred"]
    ELSE IF ~_nrf_is_listening
    THEN [data |-> relation_data, call |-> NoCall, outcome |-> "deferred"]
    ELSE LET res == set_nrf_information(relation_data, EndpointRecord,
                                        relation_id, FALSE)
         IN [data |-> res.data,
             call |-> SetCall(EndpointRecord, relation_id, res),
             outcome |-> IF res.outcome = "ok" THEN "ok" ELSE "error"]

-----------------------------------------------------------------------------
(* The events the charm observes (charm.py, __init__) and their dispatch.    *)
(* A handler that calls event.defer() has its event kept for redelivery; an  *)
(* event whose handler returns is done; an exception ends the hook and       *)
(* leaves the deferred events as they were.                                  *)

\* The nrf service is running in a container that answers
ServiceRunning == can_connect /\ _service_name \in container.running

ConfigChangedEvent == [name |-> "config_changed", relation |-> 0]
RelationJoinedEvent(r) == [name |-> "fiveg_nrf_relation_joined", relation |-> r]

Events == {ConfigChangedEvent} \cup {RelationJoinedEvent(r) : r \in RelIds}

\* before: the unit status at the start of a config-changed run
Idle == [event |-> [name |-> "none", relation |-> 0], outcome |-> "none",
         calls |-> <<>>, before |-> "none"]

AfterRun(e, fresh, outcome) ==
    IF outcome = "deferred" THEN deferred \cup {e}
    ELSE IF fresh \/ outcome = "error" THEN deferred
    ELSE deferred \ {e}

RunConfigChanged(fresh, fail) ==
    LET res == _on_config_changed(fail) IN
    /\ unit_status' = res.status
    /\ container' = res.w
    /\ deferred' = AfterRun(ConfigChangedEvent, fresh, res.outcome)
    /\ last' = [event |-> ConfigChangedEvent, outcome |-> res.outcome,
                calls |-> res.calls, before |-> unit_status]
    /\ call' = NoCall
    /\ UNCHANGED requirer_vars
    /\ UNCHANGED <<can_connect, is_leader, config, app_name, model_name,
                   relations, relation_data, observed_ready>>

RunRelationJoined(r, fresh) ==
    LET res == _on_fiveg_nrf_relation_joined(r) IN
    /\ relation_data' = res.data
    /\ call' = res.call
    /\ observed_ready' = IF is_leader /\ ServiceRunning
                         THEN observed_ready \cup {r}
                         ELSE observed_ready
    /\ deferred' = AfterRun(RelationJoinedEvent(r), fresh, res.outcome)
    /\ last' = [event |-> RelationJoinedEvent(r), outcome |-> res.outcome,
                calls |-> <<>>, before |-> "none"]
    /\ UNCHANGED requirer_vars
    /\ UNCHANGED <<can_connect, is_leader, config, app_name, model_name,
                   container, unit_status, relations>>

\* Juju delivers config-changed
ConfigChanged ==
    \E fail \in FailPoints : RunConfigChanged(TRUE, fail)

\* A remote unit joins an established fiveg-nrf relation
RelationJoined ==
    \E r \in relations : RunRelationJoined(r, TRUE)

\* The framework re-emits a deferred event
Redeliver ==
    \E e \in deferred :
        IF e.name = "config_changed"
        THEN \E fail \in FailPoints : RunConfigChanged(FALSE, fail)
        ELSE RunRelationJoined(e.relation, FALSE)

-----------------------------------------------------------------------------
(* The environment of the charm *)

\* Pebble of the workload container becomes reachable or unreachable
PebbleChanges ==
    /\ can_connect' = ~can_connect
    /\ UNCHANGED requirer_vars
    /\ UNCHANGED <<is_leader, config, app_name, model_name, container,
                   unit_status, relations, relation_data, deferred, observed_ready>>
    /\ last' = Idle /\ call' = NoCall

\* The unit gains or loses leadership
LeaderChanges ==
    /\ is_leader' = ~is_leader
    /\ UNCHANGED requirer_vars
    /\ UNCHANGED <<can_connect, config, app_name, model_name, container,
                   unit_status, relations, relation_data, deferred, observed_ready>>
    /\ last' = Idle /\ call' = NoCall

\* The operator sets nrfInterfaceNameForSBI
ConfigSet ==
    /\ \E c \in InterfaceNames : c # config /\ config' = c
    /\ UNCHANGED requirer_vars
    /\ UNCHANGED <<can_connect, is_leader, app_name, model_name, container,
                   unit_status, relations, relation_data, deferred, observed_ready>>
    /\ last' = Idle /\ call' = NoCall

\* The nrf process exits
ServiceExits ==
    /\ _service_name \in container.running
    /\ container' = [container EXCEPT !.running = @ \ {_service_name}]
    /\ UNCHANGED requirer_vars
    /\ UNCHANGED <<can_connect, is_leader, config, app_name, model_name,
                   unit_status, relations, relation_data, deferred, observed_ready>>
    /\ last' = Idle /\ call' = NoCall

\* A fiveg-nrf relation is established; its application data bag is empty
RelationCreated ==
    /\ \E r \in RelIds \ relations : relations' = relations \cup {r}
    /\ UNCHANGED requirer_vars
    /\ UNCHANGED <<can_connect, is_leader, config, app_name, model_name,
                   container, unit_status, relation_data, deferred, observed_ready>>
    /\ last' = Idle /\ call' = NoCall

Init ==
    /\ can_connect = FALSE
    /\ is_leader = FALSE
    /\ config \in InterfaceNames
    /\ app_name \in AppNames
    /\ model_name \in ModelNames
    /\ container = EmptyContainer
    /\ unit_status = "unknown"
    /\ relations = {}
    /\ relation_data = [r \in RelIds |-> EmptyDict]
    /\ deferred = {}
    /\ last = Idle
    /\ call = NoCall
    /\ observed_ready = {}
    /\ remote_app = FALSE
    /\ remote_data = EmptyDict
    /\ nrf_available = NotHandled

Next ==
    \/ ConfigChanged
    \/ RelationJoined
    \/ Redeliver
    \/ PebbleChanges
    \/ LeaderChanges
    \/ ConfigSet
    \/ ServiceExits
    \/ RelationCreated

Spec == Init /\ [][Next]_vars

-----------------------------------------------------------------------------
(* The provider library called directly: any endpoint record, any            *)
(* established relation, and relation data bags that may refuse the write.   *)

BaseRecord ==
    [nrf_ipv4_address |-> "127.0.0.1",
     nrf_fqdn |-> "nrf.core.svc.cluster.local",
     nrf_port |-> "80",
     nrf_api_version |-> "v1"]

OtherValue ==
    [nrf_ipv4_address |-> "10.1.0.7",
     nrf_fqdn |-> "nrf.edge.svc.cluster.local",
     nrf_port |-> "8080",
     nrf_api_version |-> "v2"]

\* The record of the charm and the four records that differ from it in one field
Records == {BaseRecord} \cup {[BaseRecord EXCEPT ![k] = OtherValue[k]] : k \in Keys}

\* The library holds no leadership check of its own.  The application data
\* bag it reads and writes is refused by ops and Juju to a unit that is not
\* leader; to the leader an access may fail as well.
Refusals == IF is_leader THEN BOOLEAN ELSE {TRUE}

\* The relations whose bag refuses the access during one call for all
RefusingRelations == IF is_leader THEN SUBSET relations ELSE {relations}

\* A charm calls set_nrf_information with any relation id, that of a relation
\* not established included
CallSetNrfInformation ==
    \E r \in RelIds, rec \in Records, rejected \in Refusals :
        LET res == set_nrf_information(relation_data, rec, r, rejected) IN
        /\ relation_data' = res.data
        /\ call' = SetCall(rec, r, res)
        /\ UNCHANGED requirer_vars
        /\ UNCHANGED <<can_connect, is_leader, config, app_name, model_name,
                       container, unit_status, relations, deferred, last,
                       observed_ready>>

CallSetNrfInformationForAllRelations ==
    \E rec \in Records, rejecting \in RefusingRelations :
        LET res == set_nrf_information_for_all_relations(relation_data, rec,
                                                         rejecting) IN
        /\ relation_data' = res.data
        /\ call' = [op |-> "set_nrf_information_for_all_relations",
                    relation_id |-> 0, rec |-> rec, outcome |-> res.outcome,
                    writes |-> res.writes, attempted |-> res.attempted,
                    rejecting |-> rejecting]
        /\ UNCHANGED requirer_vars
        /\ UNCHANGED <<can_connect, is_leader, config, app_name, model_name,
                       container, unit_status, relations, deferred, last,
                       observed_ready>>

NextLib ==
    \/ RelationCreated
    \/ LeaderChanges
    \/ CallSetNrfInformation
    \/ CallSetNrfInformationForAllRelations

\* One deployment; the library reads neither the names nor the container
InitLib == Init /\ config = "eth0" /\ model_name = "core"

SpecLib == InitLib /\ [][NextLib]_vars

-----------------------------------------------------------------------------
(* Redelivery.  The framework re-emits every deferred event at each later    *)
(* hook, and Juju keeps running hooks (update-status at the least), so an    *)
(* event that stays deferred is handled again and again; among these runs    *)
(* there is one in which no container call raises.                           *)

RedeliverConfigChanged ==
    /\ ConfigChangedEvent \in deferred
    /\ RunConfigChanged(FALSE, "none")

RedeliverRelationJoined(r) ==
    /\ RelationJoinedEvent(r) \in deferred
    /\ RunRelationJoined(r, FALSE)

\* The unit alone, with no relation
NextConfig ==
    \/ ConfigChanged
    \/ Redeliver
    \/ PebbleChanges
    \/ ConfigSet
    \/ ServiceExits

SpecLiveConfig ==
    Init /\ [][NextConfig]_vars /\ WF_vars(RedeliverConfigChanged)

\* The unit with its relations, under one configuration
NextPublish ==
    \/ ConfigChanged
    \/ RelationJoined
    \/ Redeliver
    \/ PebbleChanges
    \/ LeaderChanges
    \/ ServiceExits
    \/ RelationCreated

SpecLivePublish ==
    /\ InitLib
    /\ [][NextPublish]_vars
    /\ \A r \in RelIds : WF_vars(RedeliverRelationJoined(r))

-----------------------------------------------------------------------------
(* The requirer side of the library, in a charm related to one NRF *)

\* relation-set of the remote application: Juju drops a key that is set to
\* the empty string, so no stored value is empty
RelationSet(data, k, v) ==
    IF v = ""
    THEN [x \in DOMAIN data \ {k} |-> data[x]]
    ELSE (k :> v) @@ data

\* The remote application becomes known to the relation
RemoteAppKnown ==
    /\ ~remote_app
    /\ remote_app' = TRUE
    /\ nrf_available' = NotHandled
    /\ UNCHANGED <<charm_vars, remote_data>>

\* The NRF sets or clears one key of its application data
RemoteSets ==
    /\ \E k \in Keys :
           \E v \in {BaseRecord[k], OtherValue[k], ""} :
               remote_data' = RelationSet(remote_data, k, v)
    /\ nrf_available' = NotHandled
    /\ UNCHANGED <<charm_vars, remote_app>>

\* Juju delivers relation-changed
RelationChanged ==
    /\ nrf_available' = _on_relation_changed(remote_app, remote_data)
    /\ UNCHANGED <<charm_vars, remote_app, remote_data>>

NextReq ==
    \/ RemoteAppKnown
    \/ RemoteSets
    \/ RelationChanged

SpecReq == InitLib /\ [][NextReq]_vars

-----------------------------------------------------------------------------
(* Properties.  last names the handler run that has just ended, and no       *)
(* handler changes can_connect or is_leader, so a state whose last is a run  *)
(* shows the connectivity and leadership that run saw.                       *)

ConfigChangedRan == last.event = ConfigChangedEvent
RelationJoinedRan == last.event.name = "fiveg_nrf_relation_joined"

\* C1: a config-changed run with the container not connectable makes no
\* container call (no push, add_layer, replan or restart) and leaves the
\* container as it was, sets the unit status to Waiting, and defers the event.
C1_DisconnectedWaitsAndDefers ==
    [][(ConfigChangedRan' /\ ~can_connect) =>
          /\ last'.calls = <<>>
          /\ container' = container
          /\ unit_status' = "waiting"
          /\ last'.outcome = "deferred"
          /\ ConfigChangedEvent \in deferred']_vars

C1_Witness ==
    /\ ConfigChangedRan
    /\ ~can_connect
    /\ last.outcome = "deferred"
    /\ unit_status = "waiting"
    /\ "nrf" \in container.running

\* C2: a config-changed run with the container connectable that returns has
\* called push, add_layer, replan and restart in this order; the rendered
\* document is at the config path, the nrf layer is in the plan, the nrf
\* service is running, the unit status is Active and the run deferred nothing.
C2_ConnectedConfiguresInOrder ==
    [][(ConfigChangedRan' /\ can_connect /\ last'.outcome # "error") =>
          /\ last'.calls = <<"push", "add_layer", "replan", "restart">>
          /\ Get(container'.files, "/openair-nrf/etc/nrf.conf") = Render(config)
          /\ "nrf" \in DOMAIN container'.plan
          /\ "nrf" \in container'.running
          /\ unit_status' = "active"
          /\ last'.outcome = "ok"
          /\ deferred' \subseteq deferred]_vars

C2_Witness ==
    /\ ConfigChangedRan
    /\ can_connect
    /\ last.outcome = "ok"
    /\ last.calls = <<"push", "add_layer", "replan", "restart">>
    /\ unit_status = "active"
    /\ "nrf" \in container.running

\* C3: a config-changed run in which a container call fails ends with the
\* event deferred, and does not leave the unit status Active.
C3_FailureIsDeferred ==
    (ConfigChangedRan /\ last.outcome = "error") =>
        /\ ConfigChangedEvent \in deferred
        /\ unit_status # "active"

\* C4: a relation-joined run on a unit that is not leader changes nothing:
\* no relation data, no library call, no deferral, the unit status and the
\* container as they were; and relation data changes only in a step taken
\* while the unit is leader.
C4_NonLeaderJoinedIsNoOp ==
    [][/\ (RelationJoinedRan' /\ ~is_leader) =>
              /\ relation_data' = relation_data
              /\ call' = NoCall
              /\ last'.outcome = "noop"
              /\ deferred' \subseteq deferred
              /\ unit_status' = unit_status
              /\ container' = container
       /\ (relation_data' # relation_data) => is_leader]_vars

C4_Witness ==
    /\ RelationJoinedRan
    /\ ~is_leader
    /\ ServiceRunning
    /\ last.outcome = "noop"
    /\ relation_data[last.event.relation] = EmptyDict

\* C5: a relation-joined run on the leader while the nrf service is not
\* running (container unreachable, service stopped, or service not yet in the
\* plan) defers the event and makes no library call.
C5_NotRunningDefers ==
    (RelationJoinedRan /\ is_leader /\ ~ServiceRunning) =>
        /\ last.outcome = "deferred"
        /\ last.event \in deferred
        /\ call = NoCall

\* The record C6, C7 and C10 expect for the deployment
ExpectedRecord ==
    [nrf_ipv4_address |-> "127.0.0.1",
     nrf_fqdn |-> app_name \o "." \o model_name \o ".svc.cluster.local",
     nrf_port |-> "80",
     nrf_api_version |-> "v1"]

C7_LeaderJoinedSetsData ==
    (RelationJoinedRan /\ is_leader) =>
        LET d == relation_data[last.event.relation] IN
        /\ Get(d, "nrf_ipv4_address") = "127.0.0.1"
        /\ Get(d, "nrf_port") = "80"
        /\ Get(d, "nrf_api_version") = "v1"
        /\ "nrf_fqdn" \in DOMAIN d

\* The stored data of relation r equals rec in all four fields
Stored(data, r, rec) ==
    \A k \in Keys : k \in DOMAIN data[r] /\ data[r][k] = rec[k]

\* C8: a set_nrf_information call for a relation whose stored record matches
\* the given one in all four fields writes nothing; a call writes only when
\* the stored record does not match; a call that returns leaves the record
\* stored; and a call that repeats the call before it writes nothing and
\* leaves the relation data as the first call left it.
C8_PublishIsIdempotent ==
    [][call'.op = "set_nrf_information" =>
          LET r == call'.relation_id
              rec == call'.rec
          IN /\ Stored(relation_data, r, rec) =>
                    (call'.writes = 0 /\ relation_data' = relation_data)
             /\ call'.writes > 0 => ~Stored(relation_data, r, rec)
             /\ (call'.outcome = "ok" /\ ~Stored(relation_data, r, rec)) =>
                    call'.writes = 1
             /\ call'.outcome = "ok" => Stored(relation_data', r, rec)
             /\ \A q \in RelIds \ {r} : relation_data'[q] = relation_data[q]
             /\ (call.op = "set_nrf_information" /\ call.relation_id = r
                 /\ call.rec = rec /\ call.outcome = "ok") =>
                    (call'.writes = 0 /\ relation_data' = relation_data)]_vars

C8_Witness ==
    /\ call.op = "set_nrf_information"
    /\ call.outcome = "ok"
    /\ call.writes = 0
    /\ call.rec # BaseRecord
    /\ Stored(relation_data, call.relation_id, call.rec)

\* C9: a set_nrf_information_for_all_relations call attempts every
\* established relation, and afterwards every relation whose own publish was
\* not refused holds the record.
C9_AllRelationsAttempted ==
    (call.op = "set_nrf_information_for_all_relations" /\ is_leader) =>
        /\ call.attempted = relations
        /\ \A r \in relations \ call.rejecting :
               Stored(relation_data, r, call.rec)

C11_NotEstablishedFails ==
    /\ (call.op = "set_nrf_information" /\ call.relation_id \notin relations) =>
           /\ call.outcome = "RuntimeError"
           /\ call.writes = 0
           /\ relation_data[call.relation_id] = EmptyDict
    /\ (call.op = "set_nrf_information_for_all_relations" /\ relations = {}) =>
           /\ call.outcome = "RuntimeError"
           /\ call.writes = 0

\* C12: a config-changed run that starts with the unit status Active is never
\* a no-op: with the container connectable it calls push (and, unless a call
\* raises, add_layer, replan and restart, leaving the document of the current
\* configuration in place, the service running and the status Active); with
\* the container not connectable it sets the status to Waiting and defers.
C12_ActiveRunsAgain ==
    (ConfigChangedRan /\ last.before = "active") =>
        IF can_connect
        THEN /\ last.calls # <<>>
             /\ Head(last.calls) = "push"
             /\ last.outcome \in {"ok", "error"}
             /\ last.outcome = "ok" =>
                    /\ last.calls = <<"push", "add_layer", "replan", "restart">>
                    /\ Get(container.files, ConfigPath) = Render(config)
                    /\ _service_name \in DOMAIN container.plan
                    /\ _service_name \in container.running
                    /\ unit_status = "active"
        ELSE /\ last.calls = <<>>
             /\ unit_status = "waiting"
             /\ last.outcome = "deferred"
             /\ ConfigChangedEvent \in deferred

\* An Active unit is configured again
C12_Witness ==
    /\ ConfigChangedRan
    /\ last.before = "active"
    /\ can_connect
    /\ last.outcome = "ok"
    /\ config = "ens3"
    /\ Get(container.files, ConfigPath) = Render("ens3")
    /\ _service_name \in container.running

\* C13: a config-changed run with the interface name empty, in a container
\* that answers, pushes no document, makes no other container call (no
\* restart), leaves a blocked status rather than Active, and does not defer.
C13_EmptyNameIsRejected ==
    (ConfigChangedRan /\ can_connect /\ config = "") =>
        /\ last.calls = <<>>
        /\ unit_status = "blocked"
        /\ last.outcome # "deferred"

C15_DocumentIsFunctionOfConfig ==
    (ConfigChangedRan /\ Len(last.calls) >= 2) =>
        /\ DOMAIN container.files = {"/openair-nrf/etc/nrf.conf"}
        /\ container.files["/openair-nrf/etc/nrf.conf"] =
               "NRF = { INSTANCE = 0; PID_DIRECTORY = \"/var/run\"; "
               \o "SBI_INTERFACE : { INTERFACE_NAME = \"" \o config \o "\"; "
               \o "IPV4_ADDRESS = \"read\"; PORT = 80; HTTP2_PORT = 9090; "
               \o "API_VERSION = \"v1\"; }; };"

\* The leader of a unit that was Active, with relation data published, pushes
\* the document of a new name
C15_Witness ==
    /\ ConfigChangedRan
    /\ Len(last.calls) >= 2
    /\ last.before = "active"
    /\ is_leader
    /\ \E r \in relations : relation_data[r] # EmptyDict
    /\ config = "ens3"

\* C16: a relation-changed run emits nrf_available exactly when the relation
\* has a remote application whose data holds all four keys, the event
\* carries the four stored values, and a run that does not emit carries
\* nothing.
C16_EmitsIffAllFourKeys ==
    nrf_available.handled =>
        /\ nrf_available.emitted <=>
               (remote_app /\ Keys \subseteq DOMAIN remote_data)
        /\ nrf_available.emitted =>
               \A k \in Keys : nrf_available.event[k] = remote_data[k]
        /\ ~nrf_available.emitted => nrf_available.event = NoEvent

\* An event with values other than those of the NRF charm
C16_Witness ==
    /\ nrf_available.handled
    /\ nrf_available.emitted
    /\ nrf_available.event.nrf_fqdn = "nrf.edge.svc.cluster.local"
    /\ nrf_available.event.nrf_port = "8080"

\* C20: in the state a relation-changed run leaves (the remote data as the
\* run read it), nrf_available was emitted exactly when the four properties
\* nrf_ipv4_address_available, nrf_fqdn_available, nrf_port_available and
\* nrf_api_version_available are all true: a key that is present holds a
\* value that is not empty.
C20_EmittedAgreesWithAvailable ==
    /\ nrf_available.emitted =>
           /\ nrf_ipv4_address_available
           /\ nrf_fqdn_available
           /\ nrf_port_available
           /\ nrf_api_version_available
    /\ (nrf_available.handled /\ ~nrf_available.emitted) =>
           \/ ~nrf_ipv4_address_available
           \/ ~nrf_fqdn_available
           \/ ~nrf_port_available
           \/ ~nrf_api_version_available

C20_Witness ==
    /\ nrf_available.emitted
    /\ nrf_api_version_available
    /\ nrf_api_version = "v2"
    /\ nrf_ipv4_address = "127.0.0.1"

\* C17: a relation-joined run, and the publish it makes, changes at most the
\* application data of its own relation and leaves the data of every other
\* relation, the unit status and the container (pushed file, plan, running
\* services) as they were; a config-changed run makes no library call and
\* leaves all relation data as it was.
C17_HandlersKeepToTheirConcern ==
    [][/\ RelationJoinedRan' =>
              /\ \A q \in RelIds \ {last'.event.relation} :
                     relation_data'[q] = relation_data[q]
              /\ call'.op = "set_nrf_information" =>
                     call'.relation_id = last'.event.relation
              /\ unit_status' = unit_status
              /\ container' = container
       /\ ConfigChangedRan' =>
              /\ relation_data' = relation_data
              /\ call' = NoCall]_vars

\* The leader publishes for one relation of an Active, configured unit while
\* another relation has no record yet
C17_Witness ==
    /\ RelationJoinedRan
    /\ call.op = "set_nrf_information"
    /\ call.writes = 1
    /\ unit_status = "active"
    /\ ConfigPath \in DOMAIN container.files
    /\ \E q \in relations \ {last.event.relation} : relation_data[q] = EmptyDict

\* C18: if the container is connectable from some point on, then after every
\* config-changed run that did not end in an exception, and whenever a
\* config-changed event is deferred, the unit status eventually is Active
\* with no config-changed event deferred; and a run made while the container
\* is not connectable leaves the event deferred and the status Waiting, which
\* stays Waiting for as long as the container stays unconnectable.
C18_ConfigEventuallyActive ==
    /\ (<>[]can_connect) =>
           [](((ConfigChangedRan /\ last.outcome # "error")
                  \/ ConfigChangedEvent \in deferred) =>
                 <>(unit_status = "active" /\ ConfigChangedEvent \notin deferred))
    /\ [][(ConfigChangedRan' /\ ~can_connect) =>
              (ConfigChangedEvent \in deferred' /\ unit_status' = "waiting")]_vars
    /\ [][(unit_status = "waiting" /\ ~can_connect /\ ~can_connect') =>
              unit_status' = "waiting"]_vars

\* A redelivered event has taken a Waiting unit to Active
C18_Witness ==
    /\ ConfigChangedRan
    /\ last.before = "waiting"
    /\ last.outcome = "ok"
    /\ unit_status = "active"
    /\ ConfigChangedEvent \notin deferred

\* C19: for every relation, after a relation-joined run made by the leader,
\* if the unit stays leader and the nrf service is running from some point
\* on, the record of the deployment is eventually stored for that relation
\* with its event no longer deferred; and a relation-joined run made while
\* the unit is not leader publishes nothing and defers nothing.
C19_JoinedEventuallyPublished ==
    /\ \A r \in RelIds :
           [](( /\ last.event = RelationJoinedEvent(r)
                /\ is_leader
                /\ []is_leader
                /\ <>[]ServiceRunning ) =>
                 <>( /\ Stored(relation_data, r, ExpectedRecord)
                     /\ RelationJoinedEvent(r) \notin deferred ))
    /\ [][(RelationJoinedRan' /\ ~is_leader) =>
              /\ relation_data' = relation_data
              /\ call' = NoCall
              /\ deferred' \subseteq deferred]_vars

====
